---- MODULE Spec2Model ----
(***************************************************************************)
(* http-request-to-ffuf: a raw HTTP request is parsed (HTTPRequest), the   *)
(* parameter to fuzz is located (FuzzerGenerator.find_param_location) and  *)
(* an ffuf command line is rebuilt with the FUZZ marker                    *)
(* (FuzzerGenerator.generate_ffuf_command).  Strings are TLA+ strings;     *)
(* Python's str methods are modelled character by character.               *)
(***************************************************************************)
EXTENDS Integers, Sequences, FiniteSets, TLC

(***************************************************************************)
(* Python str primitives used by the program                               *)
(***************************************************************************)

CharAt(s, i) == SubSeq(s, i, i)

\* the ASCII whitespace str.strip() removes
Whitespace == {" ", "\t", "\n", "\r", "\f"}

RECURSIVE FirstNonSpace(_, _)
FirstNonSpace(s, i) ==
    IF i > Len(s) THEN i
    ELSE IF CharAt(s, i) \in Whitespace THEN FirstNonSpace(s, i + 1) ELSE i

RECURSIVE LastNonSpace(_, _)
LastNonSpace(s, i) ==
    IF i < 1 THEN i
    ELSE IF CharAt(s, i) \in Whitespace THEN LastNonSpace(s, i - 1) ELSE i

\* str.strip()
Strip(s) == SubSeq(s, FirstNonSpace(s, 1), LastNonSpace(s, Len(s)))

\* str.find(sub, start) with 1-based positions; 0 when sub does not occur
RECURSIVE Find(_, _, _)
Find(s, sub, from) ==
    IF from + Len(sub) - 1 > Len(s) THEN 0
    ELSE IF SubSeq(s, from, from + Len(sub) - 1) = sub THEN from
    ELSE Find(s, sub, from + 1)

\* sub in s
Contains(s, sub) == Find(s, sub, 1) # 0

\* str.split(sep, maxsplit); maxsplit = -1 splits everywhere
RECURSIVE SplitMax(_, _, _)
SplitMax(s, sep, maxsplit) ==
    LET i == Find(s, sep, 1) IN
    IF maxsplit = 0 \/ i = 0 THEN <<s>>
    ELSE <<SubSeq(s, 1, i - 1)>>
         \o SplitMax(SubSeq(s, i + Len(sep), Len(s)), sep, maxsplit - 1)

\* str.split(sep)
Split(s, sep) == SplitMax(s, sep, -1)

\* sep.join(parts)
RECURSIVE Join(_, _)
Join(sep, parts) ==
    IF Len(parts) = 0 THEN ""
    ELSE IF Len(parts) = 1 THEN parts[1]
    ELSE parts[1] \o sep \o Join(sep, Tail(parts))

\* str.replace(old, new) for a one-character old
RECURSIVE Replace(_, _, _)
Replace(s, old, new) ==
    IF s = "" THEN ""
    ELSE (IF CharAt(s, 1) = old THEN new ELSE CharAt(s, 1))
         \o Replace(SubSeq(s, 2, Len(s)), old, new)

Digits == "0123456789"

IsDigit(c) == Len(c) = 1 /\ Contains(Digits, c)

DigitValue(c) == Find(Digits, c, 1) - 1

\* the digits of int(): underscores are accepted only between two digits
RECURSIVE DigitsOk(_, _)
DigitsOk(s, i) ==
    IF i > Len(s) THEN Len(s) > 0
    ELSE IF IsDigit(CharAt(s, i)) THEN DigitsOk(s, i + 1)
    ELSE /\ CharAt(s, i) = "_"
         /\ i > 1 /\ i < Len(s)
         /\ IsDigit(CharAt(s, i - 1)) /\ IsDigit(CharAt(s, i + 1))
         /\ DigitsOk(s, i + 1)

RECURSIVE DigitsValue(_, _, _)
DigitsValue(s, i, acc) ==
    IF i > Len(s) THEN acc
    ELSE IF CharAt(s, i) = "_" THEN DigitsValue(s, i + 1, acc)
    ELSE DigitsValue(s, i + 1, acc * 10 + DigitValue(CharAt(s, i)))

\* int(s): surrounding whitespace, an optional sign, decimal digits;
\* anything else raises ValueError (ok = FALSE)
IntOf(s) ==
    LET t == Strip(s)
        signed == t # "" /\ CharAt(t, 1) \in {"+", "-"}
        d == IF signed THEN SubSeq(t, 2, Len(t)) ELSE t
    IN IF DigitsOk(d, 1)
       THEN [ok |-> TRUE,
             value |-> IF signed /\ CharAt(t, 1) = "-"
                       THEN 0 - DigitsValue(d, 1, 0) ELSE DigitsValue(d, 1, 0)]
       ELSE [ok |-> FALSE, value |-> 0]

\* str(n) of a natural number
RECURSIVE NatStr(_)
NatStr(n) ==
    IF n < 10 THEN CharAt(Digits, n + 1)
    ELSE NatStr(n \div 10) \o CharAt(Digits, (n % 10) + 1)

\* str(n), as the f-string {self.port} formats it
IntStr(n) == IF n < 0 THEN "-" \o NatStr(0 - n) ELSE NatStr(n)

(***************************************************************************)
(* dict: insertion-ordered; a later assignment to an existing key replaces *)
(* the value and keeps the key's position                                  *)
(***************************************************************************)

DictHas(d, k) == \E i \in 1..Len(d) : d[i].name = k

DictGet(d, k) == d[CHOOSE i \in 1..Len(d) : d[i].name = k].value

DictSet(d, k, v) ==
    IF DictHas(d, k)
    THEN [i \in 1..Len(d) |-> IF d[i].name = k THEN [name |-> k, value |-> v] ELSE d[i]]
    ELSE Append(d, [name |-> k, value |-> v])

\* Python's None for an optional value; a present value x is <<x>>
None == <<>>

(***************************************************************************)
(* HTTPRequest.parse_request                                               *)
(***************************************************************************)

\* lines = request_text.strip().split('\n')
RequestLines(request_text) == Split(Strip(request_text), "\n")

\* parts = lines[0].strip().split(' ')
RequestLineParts(lines) == Split(Strip(lines[1]), " ")

\* the header loop over enumerate(lines[1:], 1); i is Python's index, the
\* line is lines[i] there and lines[i + 1] here
RECURSIVE ParseHeaders(_, _, _)
ParseHeaders(lines, i, headers) ==
    IF i + 1 > Len(lines) THEN [headers |-> headers, body_start |-> 0]
    ELSE LET line == Strip(lines[i + 1]) IN
         IF line = "" THEN [headers |-> headers, body_start |-> i + 1]
         ELSE IF Contains(line, ":")
              THEN LET nv == SplitMax(line, ":", 1) IN
                   ParseHeaders(lines, i + 1, DictSet(headers, Strip(nv[1]), Strip(nv[2])))
              ELSE ParseHeaders(lines, i + 1, headers)

\* protocol = "https" if self.port == 443 else "http"
Protocol(port) == IF port = <<443>> THEN "https" ELSE "http"

\* PortStr without the default-port test
PortStrAnyPort(port) ==
    IF port # None /\ port[1] # 0 THEN ":" \o IntStr(port[1]) ELSE ""

\* port_str = f":{self.port}" if self.port and self.port not in (80, 443) else ""
PortStr(port) ==
    IF port # None /\ port[1] # 0 /\ port[1] \notin {80, 443}
    THEN ":" \o IntStr(port[1]) ELSE ""

\* self.url = f"{protocol}://{self.host}{port_str}{self.path}"
BuildUrl(host, port, path) == Protocol(port) \o "://" \o host \o PortStr(port) \o path

IsJson(content_type) == Contains(content_type, "application/json")

\* IsForm as one branch of an if/elif chain that tests JSON first
IsFormUnlessJson(content_type) ==
    /\ ~Contains(content_type, "application/json")
    /\ Contains(content_type, "application/x-www-form-urlencoded")

IsForm(content_type) == Contains(content_type, "application/x-www-form-urlencoded")

IsMultipart(content_type) == Contains(content_type, "multipart/form-data")

\* HTTPRequest.__init__
NewRequest ==
    [method |-> "", path |-> "", protocol |-> "", headers |-> <<>>, body |-> "",
     host |-> "", port |-> None, url |-> "", content_type |-> "",
     is_json |-> FALSE, is_form |-> FALSE, is_multipart |-> FALSE]

\* lines 58-61: method, path and protocol are set only from three or more parts
WithRequestLine(request, parts) ==
    IF Len(parts) >= 3
    THEN [request EXCEPT !.method = parts[1], !.path = parts[2], !.protocol = parts[3]]
    ELSE request

\* lines 80-86 once int() has returned or raised
WithPort(request, host, portv) ==
    IF portv.ok
    THEN [request |-> [request EXCEPT !.host = host, !.port = <<portv.value>>,
                                      !.url = BuildUrl(host, <<portv.value>>, request.path)],
          raised |-> ""]
    ELSE [request |-> [request EXCEPT !.host = host], raised |-> "ValueError"]

\* lines 77-86 for the value of the Host header
WithHostValue(request, hostv) ==
    IF Contains(hostv, ":")
    THEN WithPort(request, Split(hostv, ":")[1], IntOf(Split(hostv, ":")[2]))
    ELSE [request |-> [request EXCEPT !.host = hostv,
                                      !.url = BuildUrl(hostv, None, request.path)],
          raised |-> ""]

\* lines 76-86
WithHost(request) ==
    IF DictHas(request.headers, "Host")
    THEN WithHostValue(request, DictGet(request.headers, "Host"))
    ELSE [request |-> request, raised |-> ""]

\* lines 89-90
WithBody(request, lines, body_start) ==
    IF body_start > 0 /\ body_start < Len(lines)
    THEN [request EXCEPT !.body = Join("\n", SubSeq(lines, body_start + 1, Len(lines)))]
    ELSE request

\* lines 94-97 for the value of the Content-Type header
WithContentTypeValue(request, content_type) ==
    [request EXCEPT !.content_type = content_type,
                    !.is_json = IsJson(content_type),
                    !.is_form = IsForm(content_type),
                    !.is_multipart = IsMultipart(content_type)]

\* lines 93-97
WithContentType(request) ==
    IF DictHas(request.headers, "Content-Type")
    THEN WithContentTypeValue(request, DictGet(request.headers, "Content-Type"))
    ELSE request

\* lines 88-97, reached only when the Host block has not raised
AfterHost(hosted, lines, body_start) ==
    IF hosted.raised # "" THEN hosted
    ELSE [request |-> WithContentType(WithBody(hosted.request, lines, body_start)),
          raised |-> ""]

\* lines 56-97 for the split lines and the result of the header loop
ParseLines(lines, hb) ==
    AfterHost(WithHost([WithRequestLine(NewRequest, RequestLineParts(lines))
                            EXCEPT !.headers = hb.headers]),
              lines, hb.body_start)

\* parse_request: the request object it leaves and the exception it raises
\* ("" when it returns)
ParseRequest(request_text) ==
    ParseLines(RequestLines(request_text),
               ParseHeaders(RequestLines(request_text), 1, <<>>))

(***************************************************************************)
(* urllib.parse.parse_qs, as find_param_location calls it (defaults:       *)
(* keep_blank_values=False, strict_parsing=False, separator='&')           *)
(***************************************************************************)

\* the characters 0x20 .. 0x5F and 0x61 .. 0x7E in code order (0x60, the
\* grave accent, cannot be written in a TLA+ string)
AsciiLow == " !\"#$%&'()*+,-./0123456789:;<=>?@ABCDEFGHIJKLMNOPQRSTUVWXYZ[\\]^_"

AsciiHigh == "abcdefghijklmnopqrstuvwxyz{|}~"

\* what a byte outside the characters above decodes to
ReplacementChar == "\\uFFFD"

Chr(n) ==
    IF n >= 32 /\ n <= 95 THEN CharAt(AsciiLow, n - 31)
    ELSE IF n >= 97 /\ n <= 126 THEN CharAt(AsciiHigh, n - 96)
    ELSE IF n = 9 THEN "\t"
    ELSE IF n = 10 THEN "\n"
    ELSE IF n = 13 THEN "\r"
    ELSE ReplacementChar

IsHex(c) == Len(c) = 1 /\ (Contains("0123456789abcdef", c) \/ Contains("ABCDEF", c))

HexValue(c) ==
    IF Contains("0123456789abcdef", c) THEN Find("0123456789abcdef", c, 1) - 1
    ELSE Find("ABCDEF", c, 1) + 9

\* urllib.parse.unquote: %XX with two hex digits becomes the character,
\* any other '%' stays
RECURSIVE Unquote(_)
Unquote(s) ==
    IF s = "" THEN ""
    ELSE IF /\ CharAt(s, 1) = "%"
            /\ Len(s) >= 3
            /\ IsHex(CharAt(s, 2)) /\ IsHex(CharAt(s, 3))
         THEN Chr(16 * HexValue(CharAt(s, 2)) + HexValue(CharAt(s, 3)))
              \o Unquote(SubSeq(s, 4, Len(s)))
         ELSE CharAt(s, 1) \o Unquote(SubSeq(s, 2, Len(s)))

\* parse_qsl's loop over qs.split('&'): the (name, value) pairs it keeps
RECURSIVE ParseQslFields(_)
ParseQslFields(fields) ==
    IF Len(fields) = 0 THEN <<>>
    ELSE LET name_value == fields[1]
             nv == SplitMax(name_value, "=", 1)
             rest == ParseQslFields(Tail(fields))
         IN IF name_value = "" THEN rest
            ELSE IF Len(nv) # 2 THEN rest
            ELSE IF Len(nv[2]) > 0
                 THEN <<[name |-> Unquote(Replace(nv[1], "+", " ")),
                         value |-> Unquote(Replace(nv[2], "+", " "))]>> \o rest
                 ELSE rest

ParseQsl(qs) == IF qs = "" THEN <<>> ELSE ParseQslFields(Split(qs, "&"))

\* name in urllib.parse.parse_qs(qs)
InParseQs(name, qs) ==
    LET r == ParseQsl(qs) IN \E i \in 1..Len(r) : r[i].name = name

(***************************************************************************)
(* json.loads: a value is [t, items] with t "dict" (items: name/value      *)
(* pairs in dict order), "list" (items: the elements) or "scalar"          *)
(***************************************************************************)

JsonWhitespace == {" ", "\t", "\n", "\r"}

RECURSIVE SkipWs(_, _)
SkipWs(s, i) ==
    IF i <= Len(s) /\ CharAt(s, i) \in JsonWhitespace THEN SkipWs(s, i + 1) ELSE i

JsonFail == [ok |-> FALSE, value |-> [t |-> "scalar", items |-> <<>>], end |-> 0]

JsonScalar(end) == [ok |-> TRUE, value |-> [t |-> "scalar", items |-> <<>>], end |-> end]

RECURSIVE SkipDigits(_, _)
SkipDigits(s, i) ==
    IF i <= Len(s) /\ IsDigit(CharAt(s, i)) THEN SkipDigits(s, i + 1) ELSE i

\* NUMBER_RE (-?(?:0|[1-9]\d*))(\.\d+)?([eE][-+]?\d+)? matched at i: the
\* position after the match, 0 when there is none
JsonNumberEnd(s, i) ==
    LET a == IF i <= Len(s) /\ CharAt(s, i) = "-" THEN i + 1 ELSE i
        b == IF a <= Len(s) /\ CharAt(s, a) = "0" THEN a + 1
             ELSE IF a <= Len(s) /\ IsDigit(CharAt(s, a)) THEN SkipDigits(s, a)
             ELSE 0
        c == IF b # 0 /\ b + 1 <= Len(s) /\ CharAt(s, b) = "." /\ IsDigit(CharAt(s, b + 1))
             THEN SkipDigits(s, b + 1) ELSE b
        e == IF c # 0 /\ c <= Len(s) /\ CharAt(s, c) \in {"e", "E"} THEN c + 1 ELSE 0
        f == IF e # 0 /\ e <= Len(s) /\ CharAt(s, e) \in {"+", "-"} THEN e + 1 ELSE e
        g == IF f # 0 /\ f <= Len(s) /\ IsDigit(CharAt(s, f)) THEN SkipDigits(s, f) ELSE c
    IN g

\* py_scanstring from the character after the opening quote: the decoded
\* string and the position after the closing quote
RECURSIVE JsonString(_, _, _)
JsonString(s, i, acc) ==
    IF i > Len(s) THEN [ok |-> FALSE, str |-> "", end |-> 0]
    ELSE LET c == CharAt(s, i) IN
         IF c = "\"" THEN [ok |-> TRUE, str |-> acc, end |-> i + 1]
         ELSE IF c \in {"\n", "\r", "\t", "\f"} THEN [ok |-> FALSE, str |-> "", end |-> 0]
         ELSE IF c # "\\" THEN JsonString(s, i + 1, acc \o c)
         ELSE IF i + 1 > Len(s) THEN [ok |-> FALSE, str |-> "", end |-> 0]
         ELSE LET esc == CharAt(s, i + 1) IN
              IF esc \in {"\"", "\\", "/"} THEN JsonString(s, i + 2, acc \o esc)
              ELSE IF esc = "n" THEN JsonString(s, i + 2, acc \o "\n")
              ELSE IF esc = "r" THEN JsonString(s, i + 2, acc \o "\r")
              ELSE IF esc = "t" THEN JsonString(s, i + 2, acc \o "\t")
              ELSE IF esc = "f" THEN JsonString(s, i + 2, acc \o "\f")
              ELSE IF esc = "b" THEN JsonString(s, i + 2, acc \o Chr(8))
              ELSE IF /\ esc = "u" /\ i + 5 <= Len(s)
                      /\ \A k \in 2..5 : IsHex(CharAt(s, i + k))
                   THEN JsonString(s, i + 6,
                            acc \o Chr(4096 * HexValue(CharAt(s, i + 2))
                                       + 256 * HexValue(CharAt(s, i + 3))
                                       + 16 * HexValue(CharAt(s, i + 4))
                                       + HexValue(CharAt(s, i + 5))))
              ELSE [ok |-> FALSE, str |-> "", end |-> 0]

StartsAt(s, i, lit) ==
    i + Len(lit) - 1 <= Len(s) /\ SubSeq(s, i, i + Len(lit) - 1) = lit

RECURSIVE JsonValue(_, _)
RECURSIVE JsonObjectMembers(_, _, _)
RECURSIVE JsonArrayItems(_, _, _)

\* JSONObject once "key" : value has been read: '}' ends the object, ','
\* must be followed by the next key
JsonAfterMember(s, after, pairs) ==
    IF after > Len(s) THEN JsonFail
    ELSE IF CharAt(s, after) = "}"
    THEN [ok |-> TRUE, value |-> [t |-> "dict", items |-> pairs], end |-> after + 1]
    ELSE IF CharAt(s, after) # "," THEN JsonFail
    ELSE IF StartsAt(s, SkipWs(s, after + 1), "\"")
    THEN JsonObjectMembers(s, SkipWs(s, after + 1) + 1, pairs)
    ELSE JsonFail

JsonMemberValue(s, k, v, pairs) ==
    IF ~v.ok THEN JsonFail
    ELSE JsonAfterMember(s, SkipWs(s, v.end), DictSet(pairs, k.str, v.value))

JsonMemberColon(s, k, colon, pairs) ==
    IF ~StartsAt(s, colon, ":") THEN JsonFail
    ELSE JsonMemberValue(s, k, JsonValue(s, SkipWs(s, colon + 1)), pairs)

JsonMemberKey(s, k, pairs) ==
    IF ~k.ok THEN JsonFail
    ELSE JsonMemberColon(s, k, SkipWs(s, k.end), pairs)

\* JSONObject from the character after a key's opening quote
JsonObjectMembers(s, i, pairs) == JsonMemberKey(s, JsonString(s, i, ""), pairs)

\* JSONArray once an element has been read: ']' ends the array, ',' is
\* followed by the next element
JsonAfterItem(s, after, items) ==
    IF after > Len(s) THEN JsonFail
    ELSE IF CharAt(s, after) = "]"
    THEN [ok |-> TRUE, value |-> [t |-> "list", items |-> items], end |-> after + 1]
    ELSE IF CharAt(s, after) # "," THEN JsonFail
    ELSE JsonArrayItems(s, SkipWs(s, after + 1), items)

JsonItemValue(s, v, items) ==
    IF ~v.ok THEN JsonFail
    ELSE JsonAfterItem(s, SkipWs(s, v.end), Append(items, v.value))

\* JSONArray from the first character of an element
JsonArrayItems(s, i, items) == JsonItemValue(s, JsonValue(s, i), items)

\* a JSON string value, whose content the search never reads
JsonStringValue(k) == IF k.ok THEN JsonScalar(k.end) ELSE JsonFail

\* '{' seen; j is the first non-blank position after it
JsonObject(s, j) ==
    IF j > Len(s) THEN JsonFail
    ELSE IF CharAt(s, j) = "}"
    THEN [ok |-> TRUE, value |-> [t |-> "dict", items |-> <<>>], end |-> j + 1]
    ELSE IF CharAt(s, j) = "\"" THEN JsonObjectMembers(s, j + 1, <<>>)
    ELSE JsonFail

\* '[' seen; j is the first non-blank position after it
JsonArray(s, j) ==
    IF j <= Len(s) /\ CharAt(s, j) = "]"
    THEN [ok |-> TRUE, value |-> [t |-> "list", items |-> <<>>], end |-> j + 1]
    ELSE JsonArrayItems(s, j, <<>>)

JsonNumber(end) == IF end # 0 THEN JsonScalar(end) ELSE JsonFail

\* scan_once at i
JsonValue(s, i) ==
    IF i > Len(s) THEN JsonFail
    ELSE IF CharAt(s, i) = "\"" THEN JsonStringValue(JsonString(s, i + 1, ""))
    ELSE IF CharAt(s, i) = "{" THEN JsonObject(s, SkipWs(s, i + 1))
    ELSE IF CharAt(s, i) = "[" THEN JsonArray(s, SkipWs(s, i + 1))
    ELSE IF StartsAt(s, i, "null") THEN JsonScalar(i + 4)
    ELSE IF StartsAt(s, i, "true") THEN JsonScalar(i + 4)
    ELSE IF StartsAt(s, i, "false") THEN JsonScalar(i + 5)
    ELSE IF StartsAt(s, i, "NaN") THEN JsonScalar(i + 3)
    ELSE IF StartsAt(s, i, "Infinity") THEN JsonScalar(i + 8)
    ELSE IF StartsAt(s, i, "-Infinity") THEN JsonScalar(i + 9)
    ELSE JsonNumber(JsonNumberEnd(s, i))

\* the end of the document: only whitespace may follow the value
JsonDocument(s, v) ==
    IF v.ok /\ SkipWs(s, v.end) = Len(s) + 1 THEN v ELSE JsonFail

\* json.loads(s): ok = FALSE is json.JSONDecodeError
JsonLoads(s) == JsonDocument(s, JsonValue(s, SkipWs(s, 1)))

(***************************************************************************)
(* FuzzerGenerator._find_json_param and find_param_location                *)
(***************************************************************************)

IsContainer(v) == v.t \in {"dict", "list"}

JsonNotFound == [found |-> FALSE, position |-> None]

RECURSIVE FindJsonParam(_, _, _)
RECURSIVE FindInDictItems(_, _, _, _)
RECURSIVE FindInListItems(_, _, _, _)

\* the recursive call of lines 160-162 and 166-168, made for containers only
FindInChild(value, param, new_path) ==
    IF IsContainer(value) THEN FindJsonParam(value, param, new_path) ELSE JsonNotFound

\* DictItemStep with the recursive call made before the key is compared
DictItemStepChildFirst(items, k, param, path, new_path, inner) ==
    IF inner.found THEN inner
    ELSE IF items[k].name = param THEN [found |-> TRUE, position |-> <<new_path>>]
    ELSE FindInDictItems(items, k + 1, param, path)

\* the body of the loop over json_obj.items() for the k-th pair
DictItemStep(items, k, param, path, new_path, inner) ==
    IF items[k].name = param THEN [found |-> TRUE, position |-> <<new_path>>]
    ELSE IF inner.found THEN inner
    ELSE FindInDictItems(items, k + 1, param, path)

\* for key, value in json_obj.items(), from the k-th pair on
FindInDictItems(items, k, param, path) ==
    IF k > Len(items) THEN JsonNotFound
    ELSE DictItemStep(items, k, param, path,
            IF path # "" THEN path \o "." \o items[k].name ELSE items[k].name,
            FindInChild(items[k].value, param,
                IF path # "" THEN path \o "." \o items[k].name ELSE items[k].name))

\* the body of the loop over enumerate(json_obj) for the k-th element
ListItemStep(items, k, param, path, inner) ==
    IF inner.found THEN inner ELSE FindInListItems(items, k + 1, param, path)

\* for i, item in enumerate(json_obj), from the k-th element (index k - 1) on
FindInListItems(items, k, param, path) ==
    IF k > Len(items) THEN JsonNotFound
    ELSE ListItemStep(items, k, param, path,
            FindInChild(items[k], param, path \o "[" \o IntStr(k - 1) \o "]"))

FindJsonParam(json_obj, param, path) ==
    IF json_obj.t = "dict" THEN FindInDictItems(json_obj.items, 1, param, path)
    ELSE IF json_obj.t = "list" THEN FindInListItems(json_obj.items, 1, param, path)
    ELSE JsonNotFound

\* the URL search: '?' in path and param in parse_qs(query)
UrlParamHit(request, param) ==
    /\ Contains(request.path, "?")
    /\ InParseQs(param, SplitMax(request.path, "?", 1)[2])

\* the form-urlencoded body search is run
FormSearchRuns(request) == request.is_form /\ request.body # ""

FormParamHit(request, param) ==
    FormSearchRuns(request) /\ InParseQs(param, request.body)

\* the JSON search is run
JsonSearchRuns(request) == request.is_json /\ request.body # ""

\* the recursive search of the parsed body; a JSONDecodeError is passed over
JsonSearchDocument(json_body, param) ==
    IF json_body.ok THEN FindJsonParam(json_body.value, param, "") ELSE JsonNotFound

\* lines 125-133
JsonParamSearch(request, param) ==
    IF JsonSearchRuns(request)
    THEN JsonSearchDocument(JsonLoads(request.body), param)
    ELSE JsonNotFound

HeaderHit(request, param) == DictHas(request.headers, param)

\* name = cookie.split('=')[0].strip() of a cookie that has '='
CookieHit(request, param) ==
    /\ DictHas(request.headers, "Cookie")
    /\ LET cookies == Split(DictGet(request.headers, "Cookie"), ";") IN
       \E k \in 1..Len(cookies) :
           /\ Contains(cookies[k], "=")
           /\ Strip(Split(cookies[k], "=")[1]) = param

Located(location, position, ran) ==
    [found |-> location # None, fuzz_location |-> location,
     fuzz_position |-> position, searched |-> ran]

\* LocateInHeaders with the cookie search placed before the header search
LocateInHeadersCookieFirst(request, param, ran) ==
    IF CookieHit(request, param) THEN Located(<<"cookie">>, None, ran)
    ELSE IF HeaderHit(request, param) THEN Located(<<"header">>, None, ran)
    ELSE Located(None, None, ran)

\* lines 135-150: headers, then cookies
LocateInHeaders(request, param, ran) ==
    IF HeaderHit(request, param) THEN Located(<<"header">>, None, ran)
    ELSE IF CookieHit(request, param) THEN Located(<<"cookie">>, None, ran)
    ELSE Located(None, None, ran)

\* lines 124-150 once the JSON search, if it ran, has returned
LocateAfterJson(request, param, json, ran) ==
    IF json.found THEN Located(<<"json_field">>, json.position, ran)
    ELSE LocateInHeaders(request, param, ran)

\* lines 124-150
LocateInJson(request, param, ran) ==
    LocateAfterJson(request, param, JsonParamSearch(request, param),
                    ran \cup (IF JsonSearchRuns(request) THEN {"json"} ELSE {}))

\* lines 117-150
LocateInBody(request, param) ==
    IF FormParamHit(request, param)
    THEN Located(<<"body_param">>, None, {"form"})
    ELSE LocateInJson(request, param,
                      IF FormSearchRuns(request) THEN {"form"} ELSE {})

\* find_param_location: its return value, the fields it sets, and the
\* body searches it ran on the way
FindParamLocation(request, param) ==
    IF UrlParamHit(request, param) THEN Located(<<"url_param">>, None, {})
    ELSE LocateInBody(request, param)

(***************************************************************************)
(* FuzzerGenerator.generate_ffuf_command                                   *)
(***************************************************************************)

\* one 'name=value' segment of the query or the form body
FuzzSegment(segment, param) ==
    IF Contains(segment, "=")
    THEN LET nv == SplitMax(segment, "=", 1) IN
         IF nv[1] = param THEN nv[1] \o "=FUZZ" ELSE segment
    ELSE segment

\* params of the loop over query.split('&')
FuzzQuery(query, param) ==
    LET segments == Split(query, "&") IN
    Join("&", [k \in 1..Len(segments) |-> FuzzSegment(segments[k], param)])

\* the URL of the -u flag when the parameter is a URL parameter
FuzzedUrl(request, param) ==
    LET pq == SplitMax(request.path, "?", 1)
        new_path == pq[1] \o "?" \o FuzzQuery(pq[2], param)
        base_url == SplitMax(request.url, "?", 1)[1]
    IN base_url \o new_path

UrlFlag(request, fuzz_location, param) ==
    IF fuzz_location = <<"url_param">>
    THEN "-u \"" \o FuzzedUrl(request, param) \o "\""
    ELSE "-u \"" \o request.url \o "\""

\* FuzzCookie without the strip() of the cookies it leaves alone
FuzzCookieUntrimmed(cookie, param) ==
    IF Contains(cookie, "=")
    THEN IF Strip(SplitMax(cookie, "=", 1)[1]) = param
         THEN Strip(SplitMax(cookie, "=", 1)[1]) \o "=FUZZ" ELSE cookie
    ELSE cookie

\* one cookie of the loop over value.split(';')
FuzzCookie(cookie, param) ==
    IF Contains(cookie, "=")
    THEN LET nv == SplitMax(cookie, "=", 1) IN
         IF Strip(nv[1]) = param THEN Strip(nv[1]) \o "=FUZZ" ELSE Strip(cookie)
    ELSE Strip(cookie)

FuzzCookies(value, param) ==
    LET cookies == Split(value, ";") IN
    Join("; ", [k \in 1..Len(cookies) |-> FuzzCookie(cookies[k], param)])

HeaderFlag(name, value, fuzz_location, param) ==
    IF fuzz_location = <<"header">> /\ name = param
    THEN "-H \"" \o name \o ": FUZZ\""
    ELSE IF fuzz_location = <<"cookie">> /\ name = "Cookie"
    THEN "-H \"Cookie: " \o FuzzCookies(value, param) \o "\""
    ELSE "-H \"" \o name \o ": " \o value \o "\""

HeaderFlags(request, fuzz_location, param) ==
    [k \in 1..Len(request.headers) |->
        HeaderFlag(request.headers[k].name, request.headers[k].value, fuzz_location, param)]

BodyMethods == {"POST", "PUT", "PATCH"}

\* BodyFlags with the rebuilt form body emitted instead of the original
BodyFlagsFormFuzzed(request, fuzz_location, fuzz_position, param) ==
    IF request.body # "" /\ request.method \in BodyMethods
    THEN IF fuzz_location = <<"body_param">> /\ request.is_form
         THEN <<"-d \"" \o FuzzQuery(request.body, param) \o "\"">>
         ELSE IF fuzz_location = <<"json_field">> /\ request.is_json
         THEN <<"-d '" \o request.body \o "'",
                "-mode pitchfork",
                "-json '" \o fuzz_position[1] \o ":FUZZ'">>
         ELSE <<"-d '" \o request.body \o "'">>
    ELSE <<>>

\* lines 225-247; for a form-body target the loop of lines 228-237 builds
\* params, FuzzQuery(request.body, param), and line 239 emits the body itself
BodyFlags(request, fuzz_location, fuzz_position, param) ==
    IF request.body # "" /\ request.method \in BodyMethods
    THEN IF fuzz_location = <<"body_param">> /\ request.is_form
         THEN <<"-d \"" \o request.body \o "\"">>
         ELSE IF fuzz_location = <<"json_field">> /\ request.is_json
         THEN <<"-d '" \o request.body \o "'",
                "-mode pitchfork",
                "-json '" \o fuzz_position[1] \o ":FUZZ'">>
         ELSE <<"-d '" \o request.body \o "'">>
    ELSE <<>>

\* cmd_parts at the return of generate_ffuf_command
CmdParts(request, fuzz_location, fuzz_position, param, wordlist) ==
    <<"ffuf -w " \o wordlist, "-X " \o request.method,
      UrlFlag(request, fuzz_location, param)>>
    \o HeaderFlags(request, fuzz_location, param)
    \o BodyFlags(request, fuzz_location, fuzz_position, param)

\* line 249
Command(cmd_parts) ==
    [raised |-> "", cmd_parts |-> cmd_parts, command |-> Join(" ", cmd_parts)]

\* generate_ffuf_command: the command, or the ValueError of line 174
GenerateFfufCommand(request, fuzz_location, fuzz_position, param, wordlist) ==
    IF fuzz_location = None
    THEN [raised |-> "ValueError", cmd_parts |-> <<>>, command |-> ""]
    ELSE Command(CmdParts(request, fuzz_location, fuzz_position, param, wordlist))

(***************************************************************************)
(* main: the state of one run                                              *)
(***************************************************************************)

VARIABLES
    args,           \* argparse's result: param, wordlist, request, output, verbose
    source,         \* the request file (or standard input): exists, text
    request_text,   \* what main read
    http_request,   \* the HTTPRequest object
    fuzz_location,  \* FuzzerGenerator.fuzz_location
    fuzz_position,  \* FuzzerGenerator.fuzz_position
    searched,       \* the body searches find_param_location ran
    cmd_parts,      \* generate_ffuf_command's cmd_parts
    ffuf_command,   \* its return value
    stdout,         \* lines printed after the banner
    stderr,         \* lines printed to sys.stderr
    output_file,    \* what was written to args.output
    exit_status,    \* the process's exit status once it ended
    exception,      \* the exception main's handler caught, and where it was raised
    pc              \* where main is

vars == <<args, source, request_text, http_request, fuzz_location, fuzz_position,
          searched, cmd_parts, ffuf_command, stdout, stderr, output_file,
          exit_status, exception, pc>>

(***************************************************************************)
(* The runs explored: raw requests assembled from the pieces below         *)
(***************************************************************************)

MaxQuerySegments == 2

MaxCookieSegments == 2

MaxJsonNesting == 2

\* every sequence over pool of length lo .. hi
SeqsOf(pool, lo, hi) == UNION {[1..k -> pool] : k \in lo..hi}

\* a raw request: the request line, header lines, a blank line, the body
RawRequest(request_line, header_lines, body) ==
    Join("\n", <<request_line>> \o header_lines \o <<"", body>>)

Opt(prefix, values) == {IF v = "" THEN <<>> ELSE <<prefix \o v>> : v \in values}

QuerySegmentPool == {"q=test", "id=5", "id", "i%64=7", "id=", "", "r=/x?id=1"}

Queries == {Join("&", f) : f \in SeqsOf(QuerySegmentPool, 1, MaxQuerySegments)}

HostPool ==
    {"", "example.com", "example.com:80", "example.com:443", "example.com:8443",
     "example.com:0443", "example.com:0", "example.com:-1", "example.com: 8080",
     "example.com:443:1", "example.com:abc", "example.com:", "[::1]:8080"}

\* URL parameters against two hosts
UrlRuns ==
    {[text |-> RawRequest("GET /search?" \o q \o " HTTP/1.1", h, ""), param |-> p] :
        q \in Queries, h \in Opt("Host: ", {"", "example.com", "example.com:8443"}),
        p \in {"id", "q"}}

\* Host headers against a few paths
HostRuns ==
    {[text |-> RawRequest(m \o " " \o path \o " HTTP/1.1",
                          h \o <<"Accept: */*">>, ""),
      param |-> p] :
        m \in {"GET"}, path \in {"/", "/search?q=test&id=5", "/a/b?x"},
        h \in Opt("Host: ", HostPool), p \in {"id", "Accept"}}

ContentTypePool ==
    {"", "application/json", "application/x-www-form-urlencoded",
     "application/json, application/x-www-form-urlencoded",
     "multipart/form-data; boundary=x", "text/plain"}

\* the parameter in several locations at once
PriorityRuns ==
    {[text |-> RawRequest("POST " \o path \o " HTTP/1.1",
                          <<"Host: example.com">> \o ct \o hdr \o ck, body),
      param |-> p] :
        path \in {"/a", "/a?id=1"},
        ct \in Opt("Content-Type: ", ContentTypePool),
        hdr \in Opt("", {"", "id: 7"}),
        ck \in Opt("Cookie: ", {"", "x=2; id=3", "id; x=1"}),
        body \in {"", "id=1&x=2", "x=2", "{\"x\":{\"id\":1}}", "{\"id\":1"},
        p \in {"id", "zz"}}

CookieSegmentPool ==
    {"session=abc123", " theme=dark", " flag", " session = x ", "theme=a=b", ""}

Cookies == {Join(";", f) : f \in SeqsOf(CookieSegmentPool, 1, MaxCookieSegments)}

\* cookies and header order, with a header name given twice
CookieRuns ==
    {[text |-> RawRequest("GET /home HTTP/1.1", h, ""), param |-> p] :
        h \in {<<"Host: example.com", "Cookie: " \o c, "X-Token: t1">> : c \in Cookies}
              \cup {<<"X-Token: t1", "Cookie: " \o c, "X-Token:t2", "NoColonHere">> :
                       c \in Cookies},
        p \in {"session", "theme", "X-Token"}}

JsonDocPool ==
    {"{\"id\":42}", "{\"user\":{\"id\":42}}", "{\"items\":[0,1,{\"id\":7}]}",
     "42", "\"id\"", "[]", "{\"a\":1,\"id\":{\"id\":2}}",
     "{\"a\":{\"id\":1},\"b\":2,\"a\":3}", "{\"id\":1,}", "{\"id\" 1}",
     "{ \"b\" : [ {\"id\" : null} ] }", "{'id':1}", "id=1"}

RECURSIVE JsonDocs(_)
JsonDocs(n) ==
    IF n = 0 THEN JsonDocPool
    ELSE LET inner == JsonDocs(n - 1) IN
         inner \cup {"{\"user\":" \o d \o "}" : d \in inner}
               \cup {"[1," \o d \o "]" : d \in inner}
               \cup {"{\"a\":{\"b\":2},\"c\":" \o d \o "}" : d \in inner}

\* JSON bodies, with and without a method that carries a body
JsonRuns ==
    {[text |-> RawRequest(m \o " /api HTTP/1.1",
                          <<"Host: api.example.com:443", "Content-Type: application/json">>,
                          d),
      param |-> p] :
        m \in {"GET", "POST"}, d \in JsonDocs(MaxJsonNesting), p \in {"id", "user"}}

\* methods and bodies
BodyRuns ==
    {[text |-> RawRequest(m \o " /submit HTTP/1.1",
                          <<"Host: example.com", "id: 1">> \o ct, body),
      param |-> p] :
        m \in {"GET", "POST", "PUT", "PATCH", "DELETE", "post"},
        ct \in Opt("Content-Type: ", {"", "application/json; charset=utf-8",
                                      "application/x-www-form-urlencoded"}),
        body \in {"", "a=1&id=2", "{\"id\":1}", "line1\n\nid=3"},
        p \in {"id"}}

\* structurally odd requests
OddTexts ==
    {"", "\n", "GET", "GET /x", "GET  /x HTTP/1.1", "GET /x?id=1 HTTP/1.1 extra",
     "GET /x?id=1 HTTP/1.1\r\nHost: example.com\r\nCookie: id=1\r\n\r\n",
     "GET /x HTTP/1.1\nNoColon\nHost: h\nid: 1",
     "\n\nGET /x?id=2 HTTP/1.1\nHost: h:80\n\n\n",
     "GET /x HTTP/1.1\nHost: h:x1\nid: 1\n\n",
     "GET /x HTTP/1.1\n: empty\nid:\n\nbody"}

OddRuns == {[text |-> t, param |-> p] : t \in OddTexts, p \in {"id"}}

Runs == UrlRuns \cup HostRuns \cup PriorityRuns \cup CookieRuns \cup JsonRuns
        \cup BodyRuns \cup OddRuns

Wordlist == "words.txt"

\* how main is invoked for a run: request from a file, no output file, quiet
FileArgs(param) ==
    [param |-> param, wordlist |-> Wordlist, request |-> <<"request.txt">>,
     output |-> None, verbose |-> FALSE]

\* the other invocations, tried on the structurally odd requests
OtherArgs(param) ==
    {[FileArgs(param) EXCEPT !.request = rq, !.output = out, !.verbose = v] :
        rq \in {None, <<"request.txt">>}, out \in {None, <<"cmd.txt">>},
        v \in BOOLEAN}

Init ==
    /\ \/ \E run \in Runs :
            /\ args = FileArgs(run.param)
            /\ source = [exists |-> TRUE, text |-> run.text]
       \/ \E run \in OddRuns : \E a \in OtherArgs(run.param) :
            /\ args = a
            /\ source = [exists |-> TRUE, text |-> run.text]
       \/ /\ args = FileArgs("id")
          /\ source = [exists |-> FALSE, text |-> ""]
    /\ request_text = ""
    /\ http_request = NewRequest
    /\ fuzz_location = None
    /\ fuzz_position = None
    /\ searched = {}
    /\ cmd_parts = <<>>
    /\ ffuf_command = ""
    /\ stdout = <<>>
    /\ stderr = <<>>
    /\ output_file = None
    /\ exit_status = None
    /\ exception = None
    /\ pc = "read"

\* ExitWithError with sys.exit(0)
ExitWithStatusZero(message) ==
    /\ stderr' = Append(stderr, message)
    /\ exit_status' = <<0>>
    /\ pc' = "exit"

\* sys.exit(1) after a message on sys.stderr
ExitWithError(message) ==
    /\ stderr' = Append(stderr, message)
    /\ exit_status' = <<1>>
    /\ pc' = "exit"

\* main, lines 262-277: read the request from the file or standard input
ReadRequest ==
    /\ pc = "read"
    /\ IF args.request # None /\ ~source.exists
       THEN /\ ExitWithError("Error: The file " \o args.request[1] \o " does not exist.")
            /\ UNCHANGED request_text
       ELSE IF args.request = None /\ source.text = ""
       THEN /\ ExitWithError("Error: No HTTP request provided.")
            /\ UNCHANGED request_text
       ELSE /\ request_text' = source.text
            /\ pc' = "parse"
            /\ UNCHANGED <<stderr, exit_status>>
    /\ UNCHANGED <<args, source, http_request, fuzz_location, fuzz_position, searched,
                   cmd_parts, ffuf_command, stdout, output_file, exception>>

\* the int() message main's handler prints
IntErrorMessage(request) ==
    "Error: invalid literal for int() with base 10: '"
    \o Split(DictGet(request.headers, "Host"), ":")[2] \o "'"

\* main, lines 281-282 (and the handler of 309-311 when parse_request raises)
Parse ==
    /\ pc = "parse"
    /\ LET r == ParseRequest(request_text) IN
       /\ http_request' = r.request
       /\ IF r.raised # ""
          THEN /\ ExitWithError(IntErrorMessage(r.request))
               /\ exception' = <<[type |-> r.raised, raised_in |-> "parse_request"]>>
          ELSE pc' = "find" /\ UNCHANGED <<stderr, exit_status, exception>>
    /\ UNCHANGED <<args, source, request_text, fuzz_location, fuzz_position, searched,
                   cmd_parts, ffuf_command, stdout, output_file>>

\* main, lines 284-287: FuzzerGenerator(...).find_param_location()
Find_param_location ==
    /\ pc = "find"
    /\ LET r == FindParamLocation(http_request, args.param) IN
       /\ fuzz_location' = r.fuzz_location
       /\ fuzz_position' = r.fuzz_position
       /\ searched' = r.searched
       /\ IF ~r.found
          THEN ExitWithError("Error: The parameter '" \o args.param
                             \o "' was not found in the request.")
          ELSE pc' = "generate" /\ UNCHANGED <<stderr, exit_status>>
    /\ UNCHANGED <<args, source, request_text, http_request, cmd_parts, ffuf_command,
                   stdout, output_file, exception>>

\* main, line 289: fuzzer.generate_ffuf_command()
Generate_ffuf_command ==
    /\ pc = "generate"
    /\ LET r == GenerateFfufCommand(http_request, fuzz_location, fuzz_position,
                                    args.param, args.wordlist) IN
       /\ cmd_parts' = r.cmd_parts
       /\ ffuf_command' = r.command
       /\ IF r.raised # ""
          THEN /\ ExitWithError("Error: Parameter '" \o args.param
                                \o "' not found in the request")
               /\ exception' = <<[type |-> r.raised, raised_in |-> "generate_ffuf_command"]>>
          ELSE pc' = "output" /\ UNCHANGED <<stderr, exit_status, exception>>
    /\ UNCHANGED <<args, source, request_text, http_request, fuzz_location,
                   fuzz_position, searched, stdout, output_file>>

\* the lines of the verbose report
VerboseLines ==
    <<"Method: " \o http_request.method,
      "URL: " \o http_request.url,
      "Parameter to fuzz: " \o args.param,
      "Parameter location: " \o fuzz_location[1]>>
    \o (IF fuzz_position # None /\ fuzz_position[1] # ""
        THEN <<"JSON Position: " \o fuzz_position[1]>> ELSE <<>>)
    \o <<"\nGenerated ffuf command:">>

\* main, lines 291-307: the verbose report, then save or print the command
Output ==
    /\ pc = "output"
    /\ LET report == IF args.verbose THEN VerboseLines ELSE <<>> IN
       IF args.output # None
       THEN /\ output_file' = <<ffuf_command>>
            /\ stdout' = stdout \o report
                         \o <<"ffuf command saved to " \o args.output[1]>>
       ELSE /\ stdout' = stdout \o report \o <<ffuf_command>>
            /\ UNCHANGED output_file
    /\ exit_status' = <<0>>
    /\ pc' = "exit"
    /\ UNCHANGED <<args, source, request_text, http_request, fuzz_location,
                   fuzz_position, searched, cmd_parts, ffuf_command, stderr, exception>>

Next ==
    \/ ReadRequest
    \/ Parse
    \/ Find_param_location
    \/ Generate_ffuf_command
    \/ Output

Spec == Init /\ [][Next]_vars

(***************************************************************************)
(* Where a run is                                                          *)
(***************************************************************************)

NotFoundMessage ==
    "Error: The parameter '" \o args.param \o "' was not found in the request."

\* find_param_location returned False and main exited
FindFailed == pc = "exit" /\ stderr = <<NotFoundMessage>>

\* find_param_location returned True
FindSucceeded == pc \in {"generate", "output"} \/ (pc = "exit" /\ exit_status = <<0>>)

\* parse_request has returned
ParseReturned == pc = "find" \/ FindSucceeded \/ FindFailed

\* find_param_location has returned
FindReturned == FindSucceeded \/ FindFailed

\* generate_ffuf_command has returned
Generated == pc = "output" \/ (pc = "exit" /\ exit_status = <<0>>)

\* the parameter occurs in the given location of the parsed request
OccursIn(location) ==
    CASE location = "url_param" -> UrlParamHit(http_request, args.param)
      [] location = "body_param" -> FormParamHit(http_request, args.param)
      [] location = "json_field" -> JsonParamSearch(http_request, args.param).found
      [] location = "header" -> HeaderHit(http_request, args.param)
      [] location = "cookie" -> CookieHit(http_request, args.param)

SearchOrder == <<"url_param", "body_param", "json_field", "header", "cookie">>

Occurrences == {k \in 1..Len(SearchOrder) : OccursIn(SearchOrder[k])}

\* scheme://host[:port] of the parsed request
Origin ==
    (IF http_request.port = <<443>> THEN "https" ELSE "http") \o "://"
    \o http_request.host
    \o (IF http_request.port # None /\ http_request.port[1] \notin {0, 80, 443}
        THEN ":" \o IntStr(http_request.port[1]) ELSE "")

HasPrefix(s, prefix) == StartsAt(s, 1, prefix)

(***************************************************************************)
(* C1: when the parameter occurs in one or more of the five locations,     *)
(* find_param_location reports the earliest of them in the order URL       *)
(* parameter, form body, JSON field, header, cookie, never a later one.    *)
(***************************************************************************)
C1_FirstMatchWins ==
    (FindReturned /\ Occurrences # {}) =>
        /\ fuzz_location # None
        /\ \A k \in Occurrences :
               (\A j \in Occurrences : k <= j) => fuzz_location = <<SearchOrder[k]>>

\* the parameter is in the form body, in a header and in a cookie at once
C1_Witness ==
    /\ FindReturned
    /\ fuzz_location = <<"body_param">>
    /\ {2, 4, 5} \subseteq Occurrences

(***************************************************************************)
(* C2: for a URL-parameter target of a request with a Host header, the -u  *)
(* flag is scheme://host[:port], the path before '?' once, '?', and the    *)
(* query with only the target's value replaced by FUZZ.                    *)
(***************************************************************************)
C2_UrlFlagHasPathOnce ==
    (Generated /\ fuzz_location = <<"url_param">> /\ DictHas(http_request.headers, "Host")) =>
        cmd_parts[3] = "-u \"" \o Origin
                       \o SplitMax(http_request.path, "?", 1)[1] \o "?"
                       \o FuzzQuery(SplitMax(http_request.path, "?", 1)[2], args.param)
                       \o "\""

(***************************************************************************)
(* C3: parse_request never raises, whatever the raw request text.          *)
(***************************************************************************)
C3_ParseNeverRaises ==
    ~(exception # None /\ exception[1].raised_in = "parse_request")

(***************************************************************************)
(* C4: for a parsed request with a Host header the URL is                  *)
(* scheme://host[:port]path, the scheme https iff the port is 443, the     *)
(* port suffix present only for a port that is given and is neither 80 nor *)
(* 443: no port gives http and no suffix, 443 gives https and no suffix,   *)
(* 8443 gives http and ':8443'.                                            *)
(***************************************************************************)
C4_DerivedUrl ==
    (ParseReturned /\ DictHas(http_request.headers, "Host")) =>
        LET r == http_request
            scheme == IF r.port = <<443>> THEN "https" ELSE "http"
            suffixes == {""} \cup (IF r.port # None /\ r.port[1] \notin {80, 443}
                                   THEN {":" \o IntStr(r.port[1])} ELSE {})
        IN /\ \E suffix \in suffixes : r.url = scheme \o "://" \o r.host \o suffix \o r.path
           /\ r.port = None => r.url = "http://" \o r.host \o r.path
           /\ r.port = <<443>> => r.url = "https://" \o r.host \o r.path
           /\ r.port = <<8443>> => r.url = "http://" \o r.host \o ":8443" \o r.path
           /\ r.port = None <=> ~Contains(DictGet(r.headers, "Host"), ":")

\* a Host header whose port is written 0443: https, and no port segment
C4_Witness ==
    /\ ParseReturned
    /\ DictHas(http_request.headers, "Host")
    /\ DictGet(http_request.headers, "Host") = "example.com:0443"
    /\ http_request.url = "https://example.com/search?q=test&id=5"

(***************************************************************************)
(* C5: with a JSON content type and a body that parses, the JSON search    *)
(* finds the first key equal to the parameter in depth-first order (keys   *)
(* in dict order, elements in index order) and records its dotted and      *)
(* bracketed path; a body that does not parse is passed over without an    *)
(* exception and the search goes on with the headers and the cookies.      *)
(***************************************************************************)
RECURSIVE KeyPaths(_, _)
RECURSIVE KeyPathsOfItems(_, _, _, _)

\* every key of a parsed JSON value with its path, in depth-first order
KeyPathsOfItems(t, items, k, path) ==
    IF k > Len(items) THEN <<>>
    ELSE (IF t = "dict"
          THEN LET p == IF path # "" THEN path \o "." \o items[k].name ELSE items[k].name
               IN <<[key |-> items[k].name, path |-> p]>> \o KeyPaths(items[k].value, p)
          ELSE KeyPaths(items[k], path \o "[" \o IntStr(k - 1) \o "]"))
         \o KeyPathsOfItems(t, items, k + 1, path)

KeyPaths(v, path) ==
    IF v.t = "scalar" THEN <<>> ELSE KeyPathsOfItems(v.t, v.items, 1, path)

JsonSearchReached ==
    /\ FindReturned
    /\ ~UrlParamHit(http_request, args.param)
    /\ ~FormParamHit(http_request, args.param)
    /\ http_request.is_json
    /\ http_request.body # ""

C5_JsonDepthFirst ==
    JsonSearchReached =>
        LET doc == JsonLoads(http_request.body)
            keys == IF doc.ok THEN KeyPaths(doc.value, "") ELSE <<>>
            hits == {k \in 1..Len(keys) : keys[k].key = args.param}
        IN /\ exception = None
           /\ IF hits # {}
              THEN /\ fuzz_location = <<"json_field">>
                   /\ \A k \in hits :
                          (\A j \in hits : k <= j) => fuzz_position = <<keys[k].path>>
              ELSE /\ fuzz_position = None
                   /\ fuzz_location =
                          IF HeaderHit(http_request, args.param) THEN <<"header">>
                          ELSE IF CookieHit(http_request, args.param) THEN <<"cookie">>
                          ELSE None

\* the key sits in an object inside an array inside an object
C5_Witness ==
    /\ JsonSearchReached
    /\ fuzz_location = <<"json_field">>
    /\ fuzz_position = <<"items[2].id">>

(***************************************************************************)
(* C6: the command has exactly one -H flag per parsed header, in dict      *)
(* order, each value verbatim, except that a header target's own header    *)
(* carries FUZZ, and a cookie target's Cookie header is the cookies split  *)
(* on ';', trimmed, the target's value replaced by FUZZ, joined by '; '.   *)
(***************************************************************************)
\* the value a -H flag carries after 'name: '
FlagValue(flag, name) ==
    SubSeq(flag, Len("-H \"" \o name \o ": ") + 1, Len(flag) - 1)

\* out is the cookie string value with only the parameter's value replaced
IsFuzzedCookieString(out, value, param) ==
    LET segments == Split(value, ";")
        rebuilt == Split(out, "; ")
    IN /\ Len(rebuilt) = Len(segments)
       /\ \A k \in 1..Len(segments) :
              rebuilt[k] =
                  IF /\ Contains(segments[k], "=")
                     /\ Strip(SubSeq(segments[k], 1, Find(segments[k], "=", 1) - 1)) = param
                  THEN param \o "=FUZZ"
                  ELSE Strip(segments[k])

C6_HeaderFlags ==
    Generated =>
        LET h == http_request.headers
            n == Len(h)
        IN /\ Len(cmd_parts) >= 3 + n
           /\ Cardinality({k \in 1..Len(cmd_parts) : HasPrefix(cmd_parts[k], "-H ")}) = n
           /\ \A k \in 1..n :
                LET flag == cmd_parts[3 + k]
                    value == FlagValue(flag, h[k].name)
                IN /\ HasPrefix(flag, "-H \"" \o h[k].name \o ": ")
                   /\ CharAt(flag, Len(flag)) = "\""
                   /\ IF fuzz_location = <<"header">> /\ h[k].name = args.param
                      THEN value = "FUZZ"
                      ELSE IF fuzz_location = <<"cookie">> /\ h[k].name = "Cookie"
                      THEN /\ IsFuzzedCookieString(value, h[k].value, args.param)
                           /\ (h[k].value = "session=abc123; theme=dark"
                               /\ args.param = "session")
                              => value = "session=FUZZ; theme=dark"
                      ELSE value = h[k].value

\* the cookie example of the specification, among three headers
C6_Witness ==
    /\ Generated
    /\ fuzz_location = <<"cookie">>
    /\ args.param = "session"
    /\ Len(http_request.headers) = 3
    /\ DictGet(http_request.headers, "Cookie") = "session=abc123; theme=dark"

(***************************************************************************)
(* C7: a -d flag is emitted only for a non-empty body and a method among   *)
(* POST, PUT, PATCH, and it always carries the original body: alone for a  *)
(* form-body target (no FUZZ in it), followed by '-mode pitchfork' and     *)
(* '-json <path>:FUZZ' for a JSON-field target.                            *)
(***************************************************************************)
IsDataFlag(flag, body) ==
    flag \in {"-d \"" \o body \o "\"", "-d '" \o body \o "'"}

C8_NotFoundExits ==
    /\ (FindReturned /\ Occurrences = {}) =>
           /\ pc = "exit"
           /\ exit_status = <<1>>
           /\ exception = None
           /\ fuzz_location = None
           /\ stderr = <<NotFoundMessage>>
           /\ stdout = <<>> /\ output_file = None /\ ffuf_command = ""
    /\ FindReturned =>
           (GenerateFfufCommand(http_request, fuzz_location, fuzz_position,
                                args.param, args.wordlist).raised # ""
            <=> fuzz_location = None)
    /\ exception # None => exception[1].raised_in # "generate_ffuf_command"

\* not found although a cookie has no '=' and the JSON body does not parse
C8_Witness ==
    /\ FindFailed
    /\ Occurrences = {}
    /\ searched = {"json"}
    /\ ~JsonLoads(http_request.body).ok
    /\ DictHas(http_request.headers, "Cookie")
    /\ \E k \in 1..Len(Split(DictGet(http_request.headers, "Cookie"), ";")) :
           ~Contains(Split(DictGet(http_request.headers, "Cookie"), ";")[k], "=")

(***************************************************************************)
(* C9 as stated: the request has one content-type class, chosen with        *)
(* priority json, form-urlencoded, multipart; the form-body search runs    *)
(* only for class form-urlencoded, the JSON search only for class json,    *)
(* never both for one request.                                             *)
(***************************************************************************)
ContentTypeClass ==
    IF ~DictHas(http_request.headers, "Content-Type") THEN "none"
    ELSE IF Contains(http_request.content_type, "application/json") THEN "json"
    ELSE IF Contains(http_request.content_type, "application/x-www-form-urlencoded")
         THEN "form-urlencoded"
    ELSE IF Contains(http_request.content_type, "multipart/form-data") THEN "multipart"
    ELSE "other"

ContentTypeValue ==
    IF DictHas(http_request.headers, "Content-Type")
    THEN DictGet(http_request.headers, "Content-Type") ELSE ""

C10_MarkerAtLocation ==
    Generated =>
        /\ fuzz_location = <<"url_param">> =>
               /\ HasPrefix(cmd_parts[3], "-u ")
               /\ Contains(cmd_parts[3], args.param \o "=FUZZ")
        /\ fuzz_location = <<"json_field">> =>
               \E k \in 1..Len(cmd_parts) :
                   cmd_parts[k] = "-json '" \o fuzz_position[1] \o ":FUZZ'"
        /\ fuzz_location = <<"header">> =>
               \E k \in 1..Len(cmd_parts) :
                   cmd_parts[k] = "-H \"" \o args.param \o ": FUZZ\""
        /\ fuzz_location = <<"cookie">> =>
               \E k \in 1..Len(cmd_parts) :
                   /\ HasPrefix(cmd_parts[k], "-H \"Cookie: ")
                   /\ Contains(cmd_parts[k], args.param \o "=FUZZ")
====
